---- MODULE Spec2Model ----
(***************************************************************************)
(* Reminder bot (src/reminderbot.py): the reminder scheduler, the          *)
(* recurrence calculator, the tier/credit policy and the handlers that     *)
(* create, snooze, complete and delete reminders.                          *)
(*                                                                         *)
(* Time is counted in seconds from 2024-03-25 00:00:00 UTC (a Monday).     *)
(* A timezone-aware datetime is a record [wall, off]: the wall-clock       *)
(* reading in seconds and the UTC offset its tzinfo object carries.  A     *)
(* pytz tzinfo object has one fixed offset, so arithmetic on a datetime    *)
(* keeps `off` whatever the zone's rules say about the new wall time.      *)
(***************************************************************************)
EXTENDS Integers, Sequences, FiniteSets, Bags, TLC

VARIABLES
    now,            \* now_utc(), seconds
    reminder_data,  \* data/reminders.json: reminder id -> Reminder
    user_data,      \* data/users.json: user id -> UserProfile
    jobs,           \* the pending jobs of the job queue, a bag of [rid, when]
    running,        \* the _run_reminder_job callbacks suspended at an await
    delivered,      \* reminder id -> notifications sent so far
    next_id,        \* the next fresh reminder id
    last,           \* the handler or callback that ran last and how it ended
    calc,           \* a chain of next-occurrence computations
    adm,            \* one admission decision
    code_data       \* data/codes.json: code -> RedeemCode

vars == <<now, reminder_data, user_data, jobs, running, delivered, next_id,
          last, calc, adm, code_data>>

(***************************************************************************)
(* Bounds                                                                  *)
(***************************************************************************)
MaxReminders == 1
MaxDays == 1
MaxInterval == 1
MaxDelivered == 2
MaxCalcSteps == 2
MaxCalcInterval == 2
CalcHours == 335
MaxActiveProbe == 1001
MaxCreditsProbe == 2

(***************************************************************************)
(* Time utilities                                                          *)
(***************************************************************************)
MINUTE == 60
HOUR == 3600
DAY == 86400
WEEK == 604800

\* pytz.all_timezones, restricted to three zones, with the rules each zone
\* has from 2024-03-25 until October 2024.
all_timezones == {"UTC", "Europe/Berlin", "Australia/Sydney"}

DEFAULT_TIMEZONE == "UTC"

BerlinDstStart == 522000
SydneyDstEnd == 1094400

\* the UTC offset the zone's rules give at the UTC instant t
zone_utcoffset(tz, t) ==
    CASE tz = "Europe/Berlin" -> (IF t < BerlinDstStart THEN 3600 ELSE 7200)
      [] tz = "Australia/Sydney" -> (IF t < SydneyDstEnd THEN 39600 ELSE 36000)
      [] OTHER -> 0

\* the absolute instant of an aware datetime
instant(dt) == dt.wall - dt.off

utc_dt(t) == [wall |-> t, off |-> 0]

\* datetime.astimezone(tz) for a pytz zone: same instant, the wall clock and
\* the fixed-offset tzinfo of the zone at that instant
astimezone(dt, tz) ==
    [wall |-> instant(dt) + zone_utcoffset(tz, instant(dt)),
     off |-> zone_utcoffset(tz, instant(dt))]

\* dt + timedelta(seconds = s): wall-clock arithmetic, tzinfo untouched
plus_timedelta(dt, s) == [dt EXCEPT !.wall = @ + s]

\* datetime.weekday(), 0 = Monday, read from the wall clock
weekday(dt) == (dt.wall \div DAY) % 7

\* datetime.replace(hour, minute, second = 0): tzinfo untouched
replace_hm(dt, hour, minute) ==
    [dt EXCEPT !.wall = (dt.wall \div DAY) * DAY + hour * HOUR + minute * MINUTE]

\* the ISO string keeps the wall clock and the offset of the datetime
to_iso(dt) == [wall |-> dt.wall, off |-> dt.off]

\* a parse that reads the wall clock and drops the UTC offset of the string
from_iso_naive(s) == [wall |-> s.wall, off |-> 0]

\* fromisoformat(s).astimezone(UTC)
from_iso(s) == [wall |-> s.wall - s.off, off |-> 0]

(***************************************************************************)
(* Recurrence calculator                                                   *)
(***************************************************************************)
\* rec.get(key, default) for the optional "dow" entry, kept as a set of at
\* most one value
dow_or(rec, default) == IF rec.dow = {} THEN default ELSE CHOOSE d \in rec.dow : TRUE

\* the `while next_local.weekday() != dow: next_local += 1 day` loop
RECURSIVE move_to_weekday(_, _, _)
move_to_weekday(dt, dow, fuel) ==
    IF weekday(dt) = dow \/ fuel = 0 THEN dt
    ELSE move_to_weekday(plus_timedelta(dt, DAY), dow, fuel - 1)

\* the number of `+= 1 day` steps that loop takes from dt, counted up to
\* fuel; fuel + 1 when it has not ended after fuel steps
RECURSIVE move_to_weekday_steps(_, _, _)
move_to_weekday_steps(dt, dow, fuel) ==
    IF weekday(dt) = dow THEN 0
    ELSE IF fuel = 0 THEN 1
    ELSE 1 + move_to_weekday_steps(plus_timedelta(dt, DAY), dow, fuel - 1)

\* ReminderScheduler._next_occurrence: a set holding the next UTC datetime,
\* empty for None
next_occurrence(r) ==
    LET rec == CHOOSE x \in r.recurring : TRUE
        base == astimezone(from_iso(r.when_iso), r.timezone)
    IN  IF r.recurring = {} THEN {}
        ELSE IF rec.type = "daily"
             THEN {astimezone(plus_timedelta(base, rec.interval * DAY), "UTC")}
        ELSE IF rec.type = "weekly"
             THEN {astimezone(move_to_weekday(plus_timedelta(base, rec.interval * WEEK),
                                              dow_or(rec, weekday(base)), 7), "UTC")}
        ELSE {}

(***************************************************************************)
(* Tier / credit policy                                                    *)
(***************************************************************************)
INITIAL_FREE_CREDITS == 15

TierNames == {"FREE", "SILVER", "GOLD", "PLATINUM"}

PREMIUM_TIERS ==
    [t \in TierNames |->
        CASE t = "FREE" -> [max_active |-> 20, snooze_limit |-> 1]
          [] t = "SILVER" -> [max_active |-> 100, snooze_limit |-> 3]
          [] t = "GOLD" -> [max_active |-> 300, snooze_limit |-> 5]
          [] t = "PLATINUM" -> [max_active |-> 1000, snooze_limit |-> 10]]

\* UserProfile(user_id): the dataclass defaults
UserProfile(tz) ==
    [timezone |-> tz, is_premium |-> FALSE, premium_tier |-> "FREE",
     credits |-> INITIAL_FREE_CREDITS]

get_user_tier_info(profile) ==
    LET tier == IF profile.is_premium THEN profile.premium_tier ELSE "FREE"
    IN  IF tier \in DOMAIN PREMIUM_TIERS THEN PREMIUM_TIERS[tier]
        ELSE PREMIUM_TIERS["FREE"]

\* can_create with the limit test written `>` for `>=`
can_create_gt(profile, active_count) ==
    IF active_count > get_user_tier_info(profile).max_active
    THEN [ok |-> FALSE, reason |-> "limit"]
    ELSE IF ~profile.is_premium /\ profile.credits <= 0
    THEN [ok |-> FALSE, reason |-> "credits"]
    ELSE [ok |-> TRUE, reason |-> "none"]

\* CreditPolicy.can_create: the verdict and which refusal was given
can_create(profile, active_count) ==
    IF active_count >= get_user_tier_info(profile).max_active
    THEN [ok |-> FALSE, reason |-> "limit"]
    ELSE IF ~profile.is_premium /\ profile.credits <= 0
    THEN [ok |-> FALSE, reason |-> "credits"]
    ELSE [ok |-> TRUE, reason |-> "none"]

\* consume_on_create charging premium profiles too
consume_on_create_all(profile) == 1

\* consume_on_create charging nothing to anyone
consume_on_create_free(profile) == 0

consume_on_create(profile) == IF profile.is_premium THEN 0 ELSE 1

\* get_snooze_limit answering with the FREE entry whatever the tier
get_snooze_limit_free(profile) == PREMIUM_TIERS["FREE"].snooze_limit

get_snooze_limit(profile) == get_user_tier_info(profile).snooze_limit

(***************************************************************************)
(* Stores                                                                  *)
(***************************************************************************)
Users == {1, 2}

ReminderIds == 1..MaxReminders

\* UserStore.get_user: the profile returned, and the store it leaves behind
\* (a missing profile is created with the defaults and written)
get_user(data, user_id) ==
    IF user_id \in DOMAIN data THEN data[user_id] ELSE UserProfile(DEFAULT_TIMEZONE)

get_user_store(data, user_id) ==
    IF user_id \in DOMAIN data THEN data
    ELSE [u \in DOMAIN data \cup {user_id} |->
            IF u = user_id THEN UserProfile(DEFAULT_TIMEZONE) ELSE data[u]]

put_user(data, user_id, profile) ==
    [u \in DOMAIN data \cup {user_id} |-> IF u = user_id THEN profile ELSE data[u]]

\* Reminder(id, ...): the dataclass with snoozes_used = 0 and done = False
Reminder(id, user_id, when_iso, timezone, recurring) ==
    [id |-> id, user_id |-> user_id, when_iso |-> when_iso, timezone |-> timezone,
     snoozes_used |-> 0, recurring |-> recurring, done |-> FALSE]

rstore_has(data, reminder_id) == reminder_id \in DOMAIN data

rstore_put(data, reminder) ==
    [x \in DOMAIN data \cup {reminder.id} |->
        IF x = reminder.id THEN reminder ELSE data[x]]

\* a delete that leaves the record in the store
rstore_delete_keeps(data, reminder_id) == data

rstore_delete(data, reminder_id) ==
    [x \in DOMAIN data \ {reminder_id} |-> data[x]]

\* len([r for r in reminder_store.list_by_user(user.id) if not r.done])
active_count(data, user_id) ==
    Cardinality({x \in DOMAIN data : data[x].user_id = user_id /\ ~data[x].done})

(***************************************************************************)
(* Scheduler                                                               *)
(***************************************************************************)
GRACE_SECONDS == 2

\* the arming that queues nothing
schedule_once_dropped(js, when, reminder_id) == js

\* job_queue.run_once(callback, when, name = reminder_id): one more job in
\* the queue; a job is the reminder id and the instant it is due to run
schedule_once(js, when, reminder_id) ==
    js (+) SetToBag({[rid |-> reminder_id, when |-> instant(when)]})

\* the number of pending jobs for one reminder id
pending(js, reminder_id) ==
    BagCardinality([j \in {x \in BagToSet(js) : x.rid = reminder_id} |-> js[j]])

\* schedule_all_on_startup: the loop over rstore.all()
RECURSIVE startup_loop(_, _, _, _)
startup_loop(ids, data, t, js) ==
    IF ids = {} THEN js
    ELSE LET x == CHOOSE y \in ids : TRUE
             r == data[x]
             when == from_iso(r.when_iso)
             at == IF instant(when) < t THEN utc_dt(t + GRACE_SECONDS) ELSE when
         IN  IF r.done THEN startup_loop(ids \ {x}, data, t, js)
             ELSE startup_loop(ids \ {x}, data, t, schedule_once(js, at, r.id))

\* the startup pass without the `if r.done: continue`
schedule_all_on_startup_alsodone(data, t) ==
    startup_loop(DOMAIN data, [x \in DOMAIN data |-> [data[x] EXCEPT !.done = FALSE]],
                 t, EmptyBag)

\* the startup pass without the substitution of now + 2 s for a past instant
schedule_all_on_startup_nograce(data, t) ==
    SetToBag({[rid |-> x, when |-> instant(from_iso(data[x].when_iso))] :
                x \in {y \in DOMAIN data : ~data[y].done}})

schedule_all_on_startup(data, t) == startup_loop(DOMAIN data, data, t, EmptyBag)

\* the state transition written after the try block instead of in `finally`:
\* nothing is stored for a one-shot reminder
finally_store_skipped(data, r) ==
    IF r.recurring # {}
    THEN IF next_occurrence(r) # {}
         THEN rstore_put(data, [r EXCEPT !.when_iso =
                                   to_iso(CHOOSE d \in next_occurrence(r) : TRUE)])
         ELSE data
    ELSE data

\* the re-arm at the instant that has just fired instead of the next one
finally_jobs_stale(js, r) ==
    IF r.recurring # {} /\ next_occurrence(r) # {}
    THEN schedule_once(js, from_iso(r.when_iso), r.id)
    ELSE js

\* the `finally` block of _run_reminder_job, run on the snapshot r read at
\* the start of the job: the store and the job queue it leaves behind
finally_store(data, r) ==
    IF r.recurring # {}
    THEN IF next_occurrence(r) # {}
         THEN rstore_put(data, [r EXCEPT !.when_iso =
                                   to_iso(CHOOSE d \in next_occurrence(r) : TRUE)])
         ELSE data
    ELSE rstore_put(data, [r EXCEPT !.done = TRUE])

finally_jobs(js, r) ==
    IF r.recurring # {} /\ next_occurrence(r) # {}
    THEN schedule_once(js, CHOOSE d \in next_occurrence(r) : TRUE, r.id)
    ELSE js

(***************************************************************************)
(* State machine of the bot                                                *)
(***************************************************************************)
StartInstant == 5 * DAY

\* the instants the clock is observed at
Instants ==
    {StartInstant + d * DAY + o : d \in 0..MaxDays, o \in {0, GRACE_SECONDS}}

SnoozeMinutes == {5}

RepeatTimes == {<<0, 0>>, <<9, 0>>}

RepeatDows == {{}, {0}, {6}}

TimezoneInputs == {"Europe/Berlin", "Mars/Olympus"}

IdleCalc == [r |-> Reminder(0, 0, to_iso(utc_dt(0)), "UTC", {}),
             prev |-> to_iso(utc_dt(0)), steps |-> -1]

IdleAdm == [profile |-> UserProfile("UTC"), active_count |-> 0, asked |-> FALSE,
            ok |-> FALSE, limit |-> 0]

\* what ran last: the handler, the reminder id it was about (0 for none) and
\* how it ended
Ran(op, rid, outcome) == [op |-> op, rid |-> rid, outcome |-> outcome]

InitBot ==
    /\ now = StartInstant
    /\ reminder_data = [x \in {} |-> 0]
    /\ user_data = [x \in {} |-> 0]
    /\ jobs = EmptyBag
    /\ running = EmptyBag
    /\ delivered = [x \in ReminderIds |-> 0]
    /\ next_id = 1
    /\ last = Ran("init", 0, "ok")

Init ==
    /\ InitBot
    /\ calc = IdleCalc
    /\ adm = IdleAdm
    /\ code_data = [x \in {} |-> 0]

\* the clock moves on
Tick ==
    /\ \E t \in Instants : t > now /\ now' = t
    /\ last' = Ran("tick", 0, "ok")
    /\ UNCHANGED <<reminder_data, user_data, jobs, running, delivered, next_id,
                   calc, adm, code_data>>

\* the creation path with the deduction made before the admission check
create_reminder_charged(op, user_id, when, recurring) ==
    LET profile == get_user(user_data, user_id)
        users1 == get_user_store(user_data, user_id)
        verdict == can_create(profile, active_count(reminder_data, user_id))
        cost == consume_on_create(profile)
        reminder == Reminder(next_id, user_id, to_iso(when), profile.timezone, recurring)
    IN  /\ user_data' = (IF cost # 0
                         THEN put_user(users1, user_id,
                                       [profile EXCEPT !.credits = @ - cost])
                         ELSE users1)
        /\ IF ~verdict.ok
           THEN /\ last' = Ran(op, 0, "denied")
                /\ UNCHANGED <<reminder_data, jobs, next_id>>
           ELSE /\ reminder_data' = rstore_put(reminder_data, reminder)
                /\ jobs' = schedule_once(jobs, from_iso(reminder.when_iso), reminder.id)
                /\ next_id' = next_id + 1
                /\ last' = Ran(op, reminder.id, "created")

\* the admission check, the deduction, the put and the arming shared by every
\* creation path
create_reminder(op, user_id, when, recurring) ==
    LET profile == get_user(user_data, user_id)
        users1 == get_user_store(user_data, user_id)
        verdict == can_create(profile, active_count(reminder_data, user_id))
        cost == consume_on_create(profile)
        reminder == Reminder(next_id, user_id, to_iso(when), profile.timezone, recurring)
    IN  IF ~verdict.ok
        THEN /\ user_data' = users1
             /\ last' = Ran(op, 0, "denied")
             /\ UNCHANGED <<reminder_data, jobs, next_id>>
        ELSE /\ user_data' = (IF cost # 0
                              THEN put_user(users1, user_id,
                                            [profile EXCEPT !.credits = @ - cost])
                              ELSE users1)
             /\ reminder_data' = rstore_put(reminder_data, reminder)
             /\ jobs' = schedule_once(jobs, from_iso(reminder.when_iso), reminder.id)
             /\ next_id' = next_id + 1
             /\ last' = Ran(op, reminder.id, "created")

\* on_text_message in mode "create_text": a one-shot reminder at the parsed
\* instant, or at now when no instant was parsed
create_text(user_id, temp_when) ==
    /\ next_id <= MaxReminders
    /\ create_reminder("create_text", user_id, utc_dt(temp_when), {})
    /\ UNCHANGED <<now, running, delivered, calc, adm, code_data>>

\* the first-occurrence loop of /repeat for a weekly reminder
RECURSIVE first_weekly(_, _, _, _)
first_weekly(target_local, desired, now_local, fuel) ==
    IF fuel = 0 \/ ~(weekday(target_local) # desired
                     \/ instant(target_local) <= instant(now_local))
    THEN target_local
    ELSE first_weekly(plus_timedelta(target_local, DAY), desired, now_local, fuel - 1)

\* the number of `+= 1 day` steps the first-occurrence loop takes, counted up
\* to fuel; fuel + 1 when it has not ended after fuel steps
RECURSIVE first_weekly_steps(_, _, _, _)
first_weekly_steps(target_local, desired, now_local, fuel) ==
    IF ~(weekday(target_local) # desired \/ instant(target_local) <= instant(now_local))
    THEN 0
    ELSE IF fuel = 0 THEN 1
    ELSE 1 + first_weekly_steps(plus_timedelta(target_local, DAY), desired,
                                now_local, fuel - 1)

\* the first-occurrence loop never ends: after seven steps the candidate is
\* later than now and has been on every weekday, so a loop still running
\* then is waiting for a weekday() that does not exist
first_weekly_hangs(target_local, desired, now_local) ==
    first_weekly_steps(target_local, desired, now_local, 7) > 7

\* the handler never returns: the synchronous loop holds the event loop, and
\* only the profile that get_user made at the start of the handler is stored
handler_hangs(op, user_id) ==
    /\ user_data' = get_user_store(user_data, user_id)
    /\ last' = Ran(op, 0, "hung")
    /\ UNCHANGED <<reminder_data, jobs, next_id>>

\* cmd_repeat: /repeat <kind> [interval] [dow] | <what> at HH:MM
cmd_repeat(user_id, kind, interval, dow, hm) ==
    LET profile == get_user(user_data, user_id)
        now_local == astimezone(utc_dt(now), profile.timezone)
        today == replace_hm(now_local, hm[1], hm[2])
        desired_dow == dow_or([dow |-> dow], weekday(today))
        target_local ==
            IF kind = "daily"
            THEN IF instant(today) <= instant(now_local)
                 THEN plus_timedelta(today, DAY) ELSE today
            ELSE first_weekly(today, desired_dow, now_local, 8)
        rec == IF kind = "daily"
               THEN [type |-> "daily", interval |-> interval, dow |-> {}]
               ELSE [type |-> "weekly", interval |-> interval, dow |-> {desired_dow}]
    IN  /\ next_id <= MaxReminders
        /\ kind \in {"daily", "weekly"}
        /\ IF kind = "weekly" /\ first_weekly_hangs(today, desired_dow, now_local)
           THEN handler_hangs("cmd_repeat", user_id)
           ELSE create_reminder("cmd_repeat", user_id,
                                astimezone(target_local, "UTC"), {rec})
        /\ UNCHANGED <<now, running, delivered, calc, adm, code_data>>

\* the timezone update that stores the name without looking it up
settings_timezone_unchecked(user_id, tz_name) ==
    LET profile == get_user(user_data, user_id)
        users1 == get_user_store(user_data, user_id)
    IN  /\ user_data' = put_user(users1, user_id, [profile EXCEPT !.timezone = tz_name])
        /\ last' = Ran("settings_timezone", 0, "ok")
        /\ UNCHANGED <<now, reminder_data, jobs, running, delivered, next_id,
                       calc, adm, code_data>>

\* on_text_message in mode "settings_timezone"
settings_timezone(user_id, tz_name) ==
    LET profile == get_user(user_data, user_id)
        users1 == get_user_store(user_data, user_id)
    IN  /\ IF tz_name \notin all_timezones
           THEN /\ user_data' = users1
                /\ last' = Ran("settings_timezone", 0, "invalid")
           ELSE /\ user_data' = put_user(users1, user_id,
                                         [profile EXCEPT !.timezone = tz_name])
                /\ last' = Ran("settings_timezone", 0, "ok")
        /\ UNCHANGED <<now, reminder_data, jobs, running, delivered, next_id,
                       calc, adm, code_data>>

\* the snooze callback with the limit test written `>` for `>=`
on_callback_snooze_gt(user_id, rid, minutes) ==
    LET profile == get_user(user_data, user_id)
        r == reminder_data[rid]
        new_when == utc_dt(now + minutes * MINUTE)
    IN  /\ user_data' = get_user_store(user_data, user_id)
        /\ IF ~rstore_has(reminder_data, rid) \/ r.user_id # user_id
           THEN /\ last' = Ran("snooze", rid, "unavailable")
                /\ UNCHANGED <<reminder_data, jobs>>
           ELSE IF r.snoozes_used > get_snooze_limit(profile)
           THEN /\ last' = Ran("snooze", rid, "limit")
                /\ UNCHANGED <<reminder_data, jobs>>
           ELSE /\ reminder_data' =
                      rstore_put(reminder_data,
                                 [r EXCEPT !.when_iso = to_iso(new_when),
                                           !.snoozes_used = @ + 1])
                /\ jobs' = schedule_once(jobs, new_when, r.id)
                /\ last' = Ran("snooze", rid, "snoozed")
        /\ UNCHANGED <<now, running, delivered, next_id, calc, adm, code_data>>

\* the snooze callback that also stores the reminder as not done
on_callback_snooze_reopens(user_id, rid, minutes) ==
    LET profile == get_user(user_data, user_id)
        r == reminder_data[rid]
        new_when == utc_dt(now + minutes * MINUTE)
    IN  /\ user_data' = get_user_store(user_data, user_id)
        /\ IF ~rstore_has(reminder_data, rid) \/ r.user_id # user_id
           THEN /\ last' = Ran("snooze", rid, "unavailable")
                /\ UNCHANGED <<reminder_data, jobs>>
           ELSE IF r.snoozes_used >= get_snooze_limit(profile)
           THEN /\ last' = Ran("snooze", rid, "limit")
                /\ UNCHANGED <<reminder_data, jobs>>
           ELSE /\ reminder_data' =
                      rstore_put(reminder_data,
                                 [r EXCEPT !.when_iso = to_iso(new_when),
                                           !.snoozes_used = @ + 1,
                                           !.done = FALSE])
                /\ jobs' = schedule_once(jobs, new_when, r.id)
                /\ last' = Ran("snooze", rid, "snoozed")
        /\ UNCHANGED <<now, running, delivered, next_id, calc, adm, code_data>>

\* on_callback, data "snooze:<rid>:<minutes>"
on_callback_snooze(user_id, rid, minutes) ==
    LET profile == get_user(user_data, user_id)
        r == reminder_data[rid]
        new_when == utc_dt(now + minutes * MINUTE)
    IN  /\ user_data' = get_user_store(user_data, user_id)
        /\ IF ~rstore_has(reminder_data, rid) \/ r.user_id # user_id
           THEN /\ last' = Ran("snooze", rid, "unavailable")
                /\ UNCHANGED <<reminder_data, jobs>>
           ELSE IF r.snoozes_used >= get_snooze_limit(profile)
           THEN /\ last' = Ran("snooze", rid, "limit")
                /\ UNCHANGED <<reminder_data, jobs>>
           ELSE /\ reminder_data' =
                      rstore_put(reminder_data,
                                 [r EXCEPT !.when_iso = to_iso(new_when),
                                           !.snoozes_used = @ + 1])
                /\ jobs' = schedule_once(jobs, new_when, r.id)
                /\ last' = Ran("snooze", rid, "snoozed")
        /\ UNCHANGED <<now, running, delivered, next_id, calc, adm, code_data>>

\* on_callback, data "done:<rid>"
on_callback_done(user_id, rid) ==
    LET r == reminder_data[rid]
    IN  /\ user_data' = get_user_store(user_data, user_id)
        /\ IF ~rstore_has(reminder_data, rid) \/ r.user_id # user_id
           THEN /\ last' = Ran("done", rid, "unavailable")
                /\ UNCHANGED reminder_data
           ELSE /\ reminder_data' = rstore_put(reminder_data, [r EXCEPT !.done = TRUE])
                /\ last' = Ran("done", rid, "ok")
        /\ UNCHANGED <<now, jobs, running, delivered, next_id, calc, adm, code_data>>

\* on_callback, data "del:<rid>"
on_callback_del(user_id, rid) ==
    LET r == reminder_data[rid]
    IN  /\ user_data' = get_user_store(user_data, user_id)
        /\ IF ~rstore_has(reminder_data, rid) \/ r.user_id # user_id
           THEN /\ last' = Ran("del", rid, "unavailable")
                /\ UNCHANGED reminder_data
           ELSE /\ reminder_data' = rstore_delete(reminder_data, r.id)
                /\ last' = Ran("del", rid, "ok")
        /\ UNCHANGED <<now, jobs, running, delivered, next_id, calc, adm, code_data>>

\* cmd_delete: /delete <rid>
cmd_delete(user_id, rid) ==
    /\ IF ~rstore_has(reminder_data, rid)
       THEN /\ last' = Ran("cmd_delete", rid, "not_found")
            /\ UNCHANGED reminder_data
       ELSE /\ reminder_data' = rstore_delete(reminder_data, rid)
            /\ last' = Ran("cmd_delete", rid, "ok")
    /\ UNCHANGED <<now, user_data, jobs, running, delivered, next_id, calc, adm, code_data>>

\* the head of _run_reminder_job without the test of r.done
job_skips_absent_only(data, reminder_id) == ~rstore_has(data, reminder_id)

\* `if not r or r.done: return` at the head of _run_reminder_job
job_skips(data, reminder_id) ==
    ~rstore_has(data, reminder_id) \/ data[reminder_id].done

\* a job of the queue comes due and _run_reminder_job starts: it re-reads the
\* reminder and returns at once when it is absent or done, else it reads the
\* owner's profile and awaits send_message
run_reminder_job_start(j) ==
    LET r == reminder_data[j.rid]
    IN  /\ j \in BagToSet(jobs)
        /\ j.when <= now
        /\ delivered[j.rid] < MaxDelivered
        /\ jobs' = jobs (-) SetToBag({j})
        /\ IF job_skips(reminder_data, j.rid)
           THEN /\ last' = Ran("job_start", j.rid, "skipped")
                /\ UNCHANGED <<user_data, running>>
           ELSE /\ user_data' = get_user_store(user_data, r.user_id)
                /\ running' = running (+) SetToBag({[rid |-> j.rid, r |-> r,
                                                     stage |-> "send"]})
                /\ last' = Ran("job_start", j.rid, "sending")
        /\ UNCHANGED <<now, reminder_data, delivered, next_id, calc, adm, code_data>>

\* send_message returns: the notification is delivered and the job awaits
\* push_stats_if_enabled
run_reminder_job_sent(f) ==
    /\ f \in BagToSet(running)
    /\ f.stage = "send"
    /\ delivered' = [delivered EXCEPT ![f.rid] = @ + 1]
    /\ running' = (running (-) SetToBag({f})) (+) SetToBag({[f EXCEPT !.stage = "stats"]})
    /\ last' = Ran("job_sent", f.rid, "delivered")
    /\ UNCHANGED <<now, reminder_data, user_data, jobs, next_id, calc, adm, code_data>>

\* building or sending the message raises: the finally block runs and the
\* exception leaves the job callback
run_reminder_job_failed(f) ==
    /\ f \in BagToSet(running)
    /\ f.stage = "send"
    /\ reminder_data' = finally_store(reminder_data, f.r)
    /\ jobs' = finally_jobs(jobs, f.r)
    /\ running' = running (-) SetToBag({f})
    /\ last' = Ran("job_failed", f.rid, "raised")
    /\ UNCHANGED <<now, user_data, delivered, next_id, calc, adm, code_data>>

\* push_stats_if_enabled is over (its own errors are swallowed): the finally
\* block runs and the job callback returns
run_reminder_job_finish(f) ==
    /\ f \in BagToSet(running)
    /\ f.stage = "stats"
    /\ reminder_data' = finally_store(reminder_data, f.r)
    /\ jobs' = finally_jobs(jobs, f.r)
    /\ running' = running (-) SetToBag({f})
    /\ last' = Ran("job_finish", f.rid, "returned")
    /\ UNCHANGED <<now, user_data, delivered, next_id, calc, adm, code_data>>

\* the process is started again with the stores found on disk: the job queue
\* and the callbacks in flight are gone, and on_startup runs before any update
\* is handled
on_startup ==
    /\ jobs' = schedule_all_on_startup(reminder_data, now)
    /\ running' = EmptyBag
    /\ last' = Ran("on_startup", 0, "ok")
    /\ UNCHANGED <<now, reminder_data, user_data, delivered, next_id, calc, adm, code_data>>

Next ==
    \/ Tick
    \/ \E u \in Users, t \in {now, now + DAY} : create_text(u, t)
    \/ \E u \in Users, k \in {"daily", "weekly"}, i \in 1..MaxInterval,
          d \in RepeatDows, hm \in RepeatTimes : cmd_repeat(u, k, i, d, hm)
    \/ \E u \in Users, tz \in TimezoneInputs : settings_timezone(u, tz)
    \/ \E u \in Users, rid \in ReminderIds, m \in SnoozeMinutes :
          on_callback_snooze(u, rid, m)
    \/ \E u \in Users, rid \in ReminderIds : on_callback_done(u, rid)
    \/ \E u \in Users, rid \in ReminderIds : on_callback_del(u, rid)
    \/ \E u \in Users, rid \in ReminderIds : cmd_delete(u, rid)
    \/ \E j \in BagToSet(jobs) : run_reminder_job_start(j)
    \/ \E f \in BagToSet(running) : run_reminder_job_sent(f)
    \/ \E f \in BagToSet(running) : run_reminder_job_failed(f)
    \/ \E f \in BagToSet(running) : run_reminder_job_finish(f)
    \/ on_startup

Spec == Init /\ [][Next]_vars

(***************************************************************************)
(* The recurrence calculator on its own: a stored reminder whose due       *)
(* instant is replaced by its next occurrence, again and again             *)
(***************************************************************************)
CalcRecurrences ==
    {[type |-> "daily", interval |-> i, dow |-> {}] : i \in 1..MaxCalcInterval}
    \cup {[type |-> "weekly", interval |-> i, dow |-> d] :
            i \in 1..MaxCalcInterval, d \in {{}} \cup {{x} : x \in 0..6}}

InitCalc ==
    /\ InitBot
    /\ adm = IdleAdm
    /\ code_data = [x \in {} |-> 0]
    /\ \E h \in 0..CalcHours, tz \in all_timezones, rec \in CalcRecurrences :
          calc = [r |-> Reminder(1, 1, to_iso(utc_dt(h * HOUR)), tz, {rec}),
                  prev |-> to_iso(utc_dt(h * HOUR)), steps |-> 0]

\* next_when = self._next_occurrence(r); r.when_iso = to_iso(next_when)
calc_apply ==
    /\ calc.steps >= 0
    /\ calc.steps < MaxCalcSteps
    /\ next_occurrence(calc.r) # {}
    /\ calc' = [r |-> [calc.r EXCEPT !.when_iso =
                          to_iso(CHOOSE d \in next_occurrence(calc.r) : TRUE)],
                prev |-> calc.r.when_iso,
                steps |-> calc.steps + 1]
    /\ UNCHANGED <<now, reminder_data, user_data, jobs, running, delivered,
                   next_id, last, adm, code_data>>

NextCalc == calc_apply

SpecCalc == InitCalc /\ [][NextCalc]_vars

(***************************************************************************)
(* The admission policy on its own: one profile, one active count, one     *)
(* decision                                                                *)
(***************************************************************************)
ProbeProfiles ==
    {[timezone |-> "UTC", is_premium |-> p, premium_tier |-> t, credits |-> c] :
        p \in BOOLEAN, t \in TierNames \cup {"PREMIUM"}, c \in 0..MaxCreditsProbe}

InitPolicy ==
    /\ InitBot
    /\ calc = IdleCalc
    /\ code_data = [x \in {} |-> 0]
    /\ \E profile \in ProbeProfiles, n \in 0..MaxActiveProbe :
          /\ profile.is_premium \/ profile.premium_tier = "FREE"
          /\ adm = [profile |-> profile, active_count |-> n, asked |-> FALSE,
                    ok |-> FALSE, limit |-> 0]

\* ok, reason = CreditPolicy.can_create(profile, active_count) and
\* limit = CreditPolicy.get_snooze_limit(profile)
adm_ask ==
    /\ ~adm.asked
    /\ adm' = [adm EXCEPT !.asked = TRUE,
                          !.ok = can_create(adm.profile, adm.active_count).ok,
                          !.limit = get_snooze_limit(adm.profile)]
    /\ UNCHANGED <<now, reminder_data, user_data, jobs, running, delivered,
                   next_id, last, calc, code_data>>

NextPolicy == adm_ask

SpecPolicy == InitPolicy /\ [][NextPolicy]_vars

(***************************************************************************)
(* Redeem codes and admin grants                                           *)
(***************************************************************************)
MaxDebt == 1

\* RedeemCode(code, kind, amount, expires_at, plan_name = ...): max_uses = 1
\* and used = 0; the optional plan_name is a set of at most one name
RedeemCode(kind, amount, expires_at, plan_name) ==
    [kind |-> kind, amount |-> amount, expires_at |-> expires_at, max_uses |-> 1,
     used |-> 0, plan_name |-> plan_name]

\* the codes an administrator has generated before the bot is started: a
\* SILVER plan code, a plan code of the name PREMIUM and a one-credit code, all
\* valid for 30 days, and a SILVER plan code that expired the day before
CodesOnDisk ==
    [c \in {"MIKU-SIL", "MIKU-PRE", "MIKU-CR1", "MIKU-OLD"} |->
        CASE c = "MIKU-SIL" ->
                RedeemCode("plan", 0, to_iso(utc_dt(StartInstant + 30 * DAY)), {"SILVER"})
          [] c = "MIKU-PRE" ->
                RedeemCode("plan", 0, to_iso(utc_dt(StartInstant + 30 * DAY)), {"PREMIUM"})
          [] c = "MIKU-CR1" ->
                RedeemCode("credits", 1, to_iso(utc_dt(StartInstant + 30 * DAY)), {})
          [] c = "MIKU-OLD" ->
                RedeemCode("plan", 0, to_iso(utc_dt(StartInstant - DAY)), {"SILVER"})]

CodeInputs == DOMAIN CodesOnDisk

GrantAmounts == {0 - INITIAL_FREE_CREDITS}

\* CodesStore.inc_used
inc_used(data, code) ==
    IF code \in DOMAIN data THEN [data EXCEPT ![code].used = @ + 1] ELSE data

\* the refusals without the test of the use count
code_refusal_reusable(data, code, t) ==
    IF code \notin DOMAIN data THEN "invalid"
    ELSE IF instant(from_iso(data[code].expires_at)) < t THEN "expired"
    ELSE "none"

\* the three refusals at the head of a redemption
code_refusal(data, code, t) ==
    IF code \notin DOMAIN data THEN "invalid"
    ELSE IF instant(from_iso(data[code].expires_at)) < t THEN "expired"
    ELSE IF data[code].used >= data[code].max_uses THEN "used"
    ELSE "none"

\* code.plan_name or "PREMIUM"
plan_name_or(code, default) ==
    IF code.plan_name = {} THEN default ELSE CHOOSE n \in code.plan_name : TRUE

\* on_text_message in mode "redeem_code"
redeem_code(user_id, code_str) ==
    LET profile == get_user(user_data, user_id)
        users1 == get_user_store(user_data, user_id)
        refusal == code_refusal(code_data, code_str, now)
        code == code_data[code_str]
    IN  /\ IF refusal # "none"
           THEN /\ user_data' = users1
                /\ last' = Ran("redeem_code", 0, refusal)
                /\ UNCHANGED code_data
           ELSE IF code.kind = "credits"
           THEN /\ user_data' = put_user(users1, user_id,
                                         [profile EXCEPT !.credits = @ + code.amount])
                /\ code_data' = inc_used(code_data, code_str)
                /\ last' = Ran("redeem_code", 0, "credits")
           ELSE IF code.kind = "premium"
           THEN /\ user_data' = put_user(users1, user_id,
                                         [profile EXCEPT !.is_premium = TRUE,
                                                         !.premium_tier = "PLATINUM"])
                /\ code_data' = inc_used(code_data, code_str)
                /\ last' = Ran("redeem_code", 0, "premium")
           ELSE IF code.kind = "plan"
           THEN /\ user_data' = put_user(users1, user_id,
                       [profile EXCEPT !.is_premium = TRUE,
                                       !.premium_tier = plan_name_or(code, "PREMIUM")])
                /\ code_data' = inc_used(code_data, code_str)
                /\ last' = Ran("redeem_code", 0, "plan")
           ELSE /\ user_data' = users1
                /\ last' = Ran("redeem_code", 0, "unknown")
                /\ UNCHANGED code_data
        /\ UNCHANGED <<now, reminder_data, jobs, running, delivered, next_id, calc, adm>>

\* cmd_redeem: /redeem <code>
cmd_redeem(user_id, code_str) ==
    LET profile == get_user(user_data, user_id)
        users1 == get_user_store(user_data, user_id)
        refusal == code_refusal(code_data, code_str, now)
        code == code_data[code_str]
    IN  /\ IF refusal # "none"
           THEN /\ user_data' = users1
                /\ last' = Ran("cmd_redeem", 0, refusal)
                /\ UNCHANGED code_data
           ELSE IF code.kind = "credits"
           THEN /\ user_data' = put_user(users1, user_id,
                                         [profile EXCEPT !.credits = @ + code.amount])
                /\ code_data' = inc_used(code_data, code_str)
                /\ last' = Ran("cmd_redeem", 0, "credits")
           ELSE IF code.kind = "premium"
           THEN /\ user_data' = put_user(users1, user_id,
                                         [profile EXCEPT !.is_premium = TRUE])
                /\ code_data' = inc_used(code_data, code_str)
                /\ last' = Ran("cmd_redeem", 0, "premium")
           ELSE IF code.kind = "plan"
           THEN /\ user_data' = put_user(users1, user_id,
                       [profile EXCEPT !.is_premium = TRUE,
                                       !.premium_tier = plan_name_or(code, "PREMIUM")])
                /\ code_data' = inc_used(code_data, code_str)
                /\ last' = Ran("cmd_redeem", 0, "plan")
           ELSE /\ user_data' = users1
                /\ last' = Ran("cmd_redeem", 0, "unknown")
                /\ UNCHANGED code_data
        /\ UNCHANGED <<now, reminder_data, jobs, running, delivered, next_id, calc, adm>>

\* cmd_grant: /grant <user_id> credits <amount> | premium
cmd_grant(target, action, amt) ==
    LET profile == get_user(user_data, target)
        users1 == get_user_store(user_data, target)
    IN  /\ IF action = "credits"
           THEN /\ profile.credits + amt >= 0 - MaxDebt
                /\ user_data' = put_user(users1, target,
                                         [profile EXCEPT !.credits = @ + amt])
                /\ last' = Ran("cmd_grant", 0, "credits")
           ELSE IF action = "premium"
           THEN /\ user_data' = put_user(users1, target,
                                         [profile EXCEPT !.is_premium = TRUE])
                /\ last' = Ran("cmd_grant", 0, "premium")
           ELSE /\ user_data' = users1
                /\ last' = Ran("cmd_grant", 0, "invalid")
        /\ UNCHANGED <<now, reminder_data, jobs, running, delivered, next_id, calc, adm,
                       code_data>>

GrantActions == {"credits", "premium"}

InitAccount ==
    /\ InitBot
    /\ calc = IdleCalc
    /\ adm = IdleAdm
    /\ code_data = CodesOnDisk

NextAccount ==
    \/ \E u \in Users : create_text(u, now)
    \/ \E u \in Users : cmd_repeat(u, "daily", 1, {}, <<9, 0>>)
    \/ \E u \in Users, rid \in ReminderIds, m \in SnoozeMinutes :
          on_callback_snooze(u, rid, m)
    \/ \E j \in BagToSet(jobs) : run_reminder_job_start(j)
    \/ \E f \in BagToSet(running) : run_reminder_job_sent(f)
    \/ \E f \in BagToSet(running) : run_reminder_job_failed(f)
    \/ \E f \in BagToSet(running) : run_reminder_job_finish(f)
    \/ \E u \in Users, c \in CodeInputs : redeem_code(u, c)
    \/ \E u \in Users, c \in CodeInputs : cmd_redeem(u, c)
    \/ \E u \in Users, a \in GrantActions, amt \in GrantAmounts :
          cmd_grant(u, a, amt)

SpecAccount == InitAccount /\ [][NextAccount]_vars

(***************************************************************************)
(* The recurring reminders: every interval /repeat and the inline repeat   *)
(* flow accept, on a fresh store or on a store found on disk that holds a  *)
(* reminder with a recurrence kind this version does not know              *)
(***************************************************************************)
RepeatIntervals == 0..MaxInterval

\* the days of week /repeat takes: any string of digits, or none
RepeatDowsTyped == RepeatDows \cup {{7}}

\* session.repeat_interval or 1
interval_or(interval, default) == IF interval = 0 THEN default ELSE interval

\* on_text_message in mode "repeat_text": the last step of the inline repeat
\* flow, on the kind, interval, day of week and time the session holds
repeat_text(user_id, kind, interval, dow, hm) ==
    LET profile == get_user(user_data, user_id)
        now_local == astimezone(utc_dt(now), profile.timezone)
        today == replace_hm(now_local, hm[1], hm[2])
        desired == dow_or([dow |-> dow], weekday(today))
        target_local ==
            IF kind = "daily"
            THEN IF instant(today) <= instant(now_local)
                 THEN plus_timedelta(today, interval_or(interval, 1) * DAY) ELSE today
            ELSE first_weekly(today, desired, now_local, 8)
        rec == IF kind = "daily"
               THEN [type |-> "daily", interval |-> interval_or(interval, 1), dow |-> {}]
               ELSE [type |-> "weekly", interval |-> interval_or(interval, 1),
                     dow |-> {desired}]
    IN  /\ next_id <= MaxReminders
        /\ IF kind # "daily" /\ first_weekly_hangs(today, desired, now_local)
           THEN handler_hangs("repeat_text", user_id)
           ELSE create_reminder("repeat_text", user_id,
                                astimezone(target_local, "UTC"), {rec})
        /\ UNCHANGED <<now, running, delivered, calc, adm, code_data>>

\* data/reminders.json and data/users.json as an earlier version of the bot
\* left them: one reminder of user 1, due at the start instant, with a
\* recurrence of kind "monthly"
StoredKinds == {"monthly"}

InitRecur ==
    /\ now = StartInstant
    /\ jobs = EmptyBag
    /\ running = EmptyBag
    /\ delivered = [x \in ReminderIds |-> 0]
    /\ last = Ran("init", 0, "ok")
    /\ calc = IdleCalc
    /\ adm = IdleAdm
    /\ code_data = [x \in {} |-> 0]
    /\ \/ /\ reminder_data = [x \in {} |-> 0]
          /\ user_data = [x \in {} |-> 0]
          /\ next_id = 1
       \/ \E k \in StoredKinds :
             /\ reminder_data =
                   [x \in {1} |->
                       Reminder(1, 1, to_iso(utc_dt(StartInstant)), DEFAULT_TIMEZONE,
                                {[type |-> k, interval |-> 1, dow |-> {}]})]
             /\ user_data = [x \in {1} |->
                                [UserProfile(DEFAULT_TIMEZONE) EXCEPT !.credits = @ - 1]]
             /\ next_id = 2

\* no handler is stuck in a loop that holds the event loop
event_loop_free == last.outcome # "hung"

\* a handler that hangs holds the event loop: nothing else runs until the
\* process is started again
NextRecur ==
    \/ event_loop_free /\ Tick
    \/ /\ event_loop_free
       /\ \E u \in Users, k \in {"daily", "weekly"}, i \in RepeatIntervals,
             d \in RepeatDowsTyped, hm \in RepeatTimes : cmd_repeat(u, k, i, d, hm)
    \/ /\ event_loop_free
       /\ \E u \in Users, k \in {"daily", "weekly"}, i \in RepeatIntervals,
             d \in RepeatDows, hm \in RepeatTimes : repeat_text(u, k, i, d, hm)
    \/ event_loop_free /\ \E j \in BagToSet(jobs) : run_reminder_job_start(j)
    \/ event_loop_free /\ \E f \in BagToSet(running) : run_reminder_job_sent(f)
    \/ event_loop_free /\ \E f \in BagToSet(running) : run_reminder_job_failed(f)
    \/ event_loop_free /\ \E f \in BagToSet(running) : run_reminder_job_finish(f)
    \/ on_startup

SpecRecur == InitRecur /\ [][NextRecur]_vars

(***************************************************************************)
(* Creation, snooze, fires and restarts only: the owner never deletes a    *)
(* reminder and never marks one done                                       *)
(***************************************************************************)
InitSnooze == Init

\* the owner taps a snooze button: the buttons are on the notifications of
\* the reminder only, so one has been delivered
tap_snooze(user_id, rid, minutes) ==
    /\ delivered[rid] >= 1
    /\ on_callback_snooze(user_id, rid, minutes)

NextSnooze ==
    \/ Tick
    \/ \E u \in Users, t \in {now, now + DAY} : create_text(u, t)
    \/ \E u \in Users, hm \in RepeatTimes : cmd_repeat(u, "daily", 1, {}, hm)
    \/ \E u \in Users, rid \in ReminderIds, m \in SnoozeMinutes : tap_snooze(u, rid, m)
    \/ \E j \in BagToSet(jobs) : run_reminder_job_start(j)
    \/ \E f \in BagToSet(running) : run_reminder_job_sent(f)
    \/ \E f \in BagToSet(running) : run_reminder_job_failed(f)
    \/ \E f \in BagToSet(running) : run_reminder_job_finish(f)
    \/ on_startup

SpecSnooze == InitSnooze /\ [][NextSnooze]_vars

(***************************************************************************)
(* Capacity: one user creating reminders up to the limit of a tier and     *)
(* redeeming plan codes                                                    *)
(***************************************************************************)
MaxStored == 21

CapacityUsers == {1}

\* on_text_message in mode "create_text" with no instant parsed, for as many
\* reminders as MaxStored
create_text_now(user_id) ==
    /\ next_id <= MaxStored
    /\ create_reminder("create_text", user_id, utc_dt(now), {})
    /\ UNCHANGED <<now, running, delivered, calc, adm, code_data>>

InitCapacity == InitAccount

NextCapacity ==
    \/ \E u \in CapacityUsers : create_text_now(u)
    \/ \E u \in CapacityUsers, c \in CodeInputs : redeem_code(u, c)

SpecCapacity == InitCapacity /\ [][NextCapacity]_vars

(***************************************************************************)
(* Fires under a fair timer substrate: the clock moves on, every job that  *)
(* is due is run, and the process may be started again at any time         *)
(***************************************************************************)
InitLive == Init

NextLive ==
    \/ Tick
    \/ \E u \in Users, t \in {now, now + DAY} : create_text(u, t)
    \/ \E u \in Users, hm \in RepeatTimes : cmd_repeat(u, "daily", 1, {}, hm)
    \/ \E u \in Users, rid \in ReminderIds : on_callback_done(u, rid)
    \/ \E u \in Users, rid \in ReminderIds : on_callback_del(u, rid)
    \/ \E j \in BagToSet(jobs) : run_reminder_job_start(j)
    \/ \E f \in BagToSet(running) : run_reminder_job_sent(f)
    \/ \E f \in BagToSet(running) : run_reminder_job_failed(f)
    \/ \E f \in BagToSet(running) : run_reminder_job_finish(f)
    \/ on_startup

\* the job queue runs every job whose time has come, whatever other jobs it
\* holds, and a callback that is suspended at an await is resumed
SpecLive ==
    /\ InitLive
    /\ [][NextLive]_vars
    /\ WF_vars(Tick)
    /\ \A rid \in ReminderIds :
          WF_vars(\E j \in BagToSet(jobs) : j.rid = rid /\ run_reminder_job_start(j))
    /\ \A rid \in ReminderIds :
          WF_vars(\E f \in BagToSet(running) :
                     /\ f.rid = rid
                     /\ run_reminder_job_failed(f) \/ run_reminder_job_finish(f))

(***************************************************************************)
(* Claims                                                                  *)
(***************************************************************************)
\* a pending job for reminder_id due at the instant t
armed_at(js, reminder_id, t) == [rid |-> reminder_id, when |-> t] \in BagToSet(js)

\* the callback that the step takes out of `running`
ended_in_step(f) == f \in BagToSet(running) /\ running' = running (-) SetToBag({f})

\* C1: after any sequence of create, snooze, recurrence re-arm and startup
\* operations there is at most one pending timer per reminder id.
C1_OneTimerPerReminder ==
    \A rid \in ReminderIds : pending(jobs, rid) <= 1

\* C2: when a timer fires for a reminder id that is absent from the store or
\* whose done flag is set, the fire handler does nothing: nothing is sent (no
\* callback is left awaiting send_message), both stores are unchanged and no
\* timer is armed.
C2_FireOfGoneReminderIsNoop ==
    [][(/\ last'.op = "job_start"
        /\ \/ last'.rid \notin DOMAIN reminder_data
           \/ reminder_data[last'.rid].done)
       => /\ delivered' = delivered
          /\ running' = running
          /\ reminder_data' = reminder_data
          /\ user_data' = user_data
          /\ \A rid \in ReminderIds : pending(jobs', rid) <= pending(jobs, rid)]_vars

C2_Witness ==
    /\ last.op = "job_start"
    /\ last.outcome = "skipped"
    /\ last.rid \in DOMAIN reminder_data
    /\ reminder_data[last.rid].done
    /\ running = EmptyBag
    /\ delivered[last.rid] = 0

\* C3: when delivery raises, a one-shot reminder is still stored with done set,
\* and a daily or weekly reminder is still stored with its due instant moved to
\* the next occurrence and done false, and is armed again.
C3_FailedDeliveryStillTransitions ==
    [][\A f \in BagToSet(running) :
          (last'.op = "job_failed" /\ ended_in_step(f))
          => /\ f.rid \in DOMAIN reminder_data'
             /\ IF f.r.recurring = {}
                THEN reminder_data'[f.rid].done
                ELSE /\ ~reminder_data'[f.rid].done
                     /\ from_iso(reminder_data'[f.rid].when_iso) \in next_occurrence(f.r)
                     /\ pending(jobs', f.rid) = pending(jobs, f.rid) + 1
                     /\ armed_at(jobs', f.rid,
                                 instant(from_iso(reminder_data'[f.rid].when_iso)))]_vars

C3_Witness ==
    /\ last.op = "job_failed"
    /\ last.rid \in DOMAIN reminder_data
    /\ reminder_data[last.rid].recurring = {}
    /\ reminder_data[last.rid].done
    /\ delivered[last.rid] = 0

\* no callback for reminder_id is suspended at an await
not_running(rs, reminder_id) == \A f \in BagToSet(rs) : f.rid # reminder_id

\* reminder_id was created, no callback for it is in flight, and it is stored as
\* a one-shot reminder with done set (or is no longer stored at all)
retired(data, rs, nid, reminder_id) ==
    /\ reminder_id < nid
    /\ not_running(rs, reminder_id)
    /\ reminder_id \in DOMAIN data
          => (data[reminder_id].recurring = {} /\ data[reminder_id].done)

\* C4 as claimed: a one-shot reminder is delivered at most once.
C4_OneShotDeliveredOnce ==
    \A rid \in DOMAIN reminder_data :
        reminder_data[rid].recurring = {} => delivered[rid] <= 1

\* C4 as amended: a fire of a one-shot reminder that runs to its end stores
\* done = true, and from then on (no other fire of it being in flight) every
\* timer firing for the id starts no delivery: the delivery count of the id
\* stays what it is and the reminder stays done.
C4_NoDeliveryAfterCompletion ==
    [][/\ \A f \in BagToSet(running) :
             (ended_in_step(f) /\ last'.op \in {"job_failed", "job_finish"}
              /\ f.r.recurring = {})
             => (f.rid \in DOMAIN reminder_data' /\ reminder_data'[f.rid].done)
       /\ \A rid \in ReminderIds :
             retired(reminder_data, running, next_id, rid)
             => /\ retired(reminder_data', running', next_id', rid)
                /\ delivered'[rid] = delivered[rid]]_vars

C4_Witness ==
    /\ last.op = "job_start"
    /\ last.outcome = "skipped"
    /\ last.rid \in DOMAIN reminder_data
    /\ reminder_data[last.rid].recurring = {}
    /\ reminder_data[last.rid].done
    /\ retired(reminder_data, running, next_id, last.rid)
    /\ delivered[last.rid] = 1

\* C5: after the fire of a daily or weekly reminder, whether delivery succeeded
\* or raised, the stored due instant is the next occurrence computed from the
\* due instant read at fire time, the reminder is stored with done false, and a
\* timer is armed at exactly the stored due instant.
C5_RecurringFireRearmsAtNextOccurrence ==
    [][\A f \in BagToSet(running) :
          (/\ last'.op \in {"job_failed", "job_finish"}
           /\ ended_in_step(f)
           /\ f.r.recurring # {}
           /\ (CHOOSE x \in f.r.recurring : TRUE).type \in {"daily", "weekly"})
          => /\ f.rid \in DOMAIN reminder_data'
             /\ reminder_data'[f.rid] =
                   [f.r EXCEPT !.when_iso =
                       to_iso(CHOOSE d \in next_occurrence(f.r) : TRUE)]
             /\ ~reminder_data'[f.rid].done
             /\ jobs' = jobs (+) SetToBag({[rid |-> f.rid,
                     when |-> instant(from_iso(reminder_data'[f.rid].when_iso))]})]_vars

C5_Witness ==
    /\ last.op = "job_finish"
    /\ last.rid \in DOMAIN reminder_data
    /\ reminder_data[last.rid].recurring # {}
    /\ ~reminder_data[last.rid].done
    /\ delivered[last.rid] = 1
    /\ armed_at(jobs, last.rid, instant(from_iso(reminder_data[last.rid].when_iso)))

C7_StartupGraceForPastDue ==
    [][(last'.op = "on_startup")
       => /\ delivered' = delivered
          /\ running' = EmptyBag
          /\ \A rid \in DOMAIN reminder_data :
                ~reminder_data[rid].done
                => \A j \in BagToSet(jobs') :
                      j.rid = rid
                      => j.when = (IF instant(from_iso(reminder_data[rid].when_iso)) < now
                                   THEN now + 2
                                   ELSE instant(from_iso(reminder_data[rid].when_iso)))]_vars

C7_Witness ==
    /\ last.op = "on_startup"
    /\ \E rid \in DOMAIN reminder_data :
          /\ ~reminder_data[rid].done
          /\ instant(from_iso(reminder_data[rid].when_iso)) < now
          /\ armed_at(jobs, rid, now + 2)
          /\ pending(jobs, rid) = 1

\* C8: for a weekly recurrence with target day-of-week d and interval >= 1,
\* every computed next occurrence falls on weekday d in the reminder's timezone
\* and is strictly later than the instant it was computed from.
C8_WeeklyFallsOnTargetDay ==
    (calc.steps > 0 /\ (CHOOSE x \in calc.r.recurring : TRUE).type = "weekly")
    => LET rec == CHOOSE x \in calc.r.recurring : TRUE
           next_local == astimezone(from_iso(calc.r.when_iso), calc.r.timezone)
       IN  /\ instant(from_iso(calc.r.when_iso)) > instant(from_iso(calc.prev))
           /\ rec.dow # {} => weekday(next_local) = dow_or(rec, 0)

\* C9: for a daily recurrence with interval k, each computed instant is strictly
\* later than the previous one and reads, on the local clock of the reminder's
\* timezone, exactly k days later: same hour, minute and second, also across a
\* change of the zone's UTC offset.
C9_DailyKeepsLocalTime ==
    (calc.steps > 0 /\ (CHOOSE x \in calc.r.recurring : TRUE).type = "daily")
    => LET rec == CHOOSE x \in calc.r.recurring : TRUE
           next_local == astimezone(from_iso(calc.r.when_iso), calc.r.timezone)
           prev_local == astimezone(from_iso(calc.prev), calc.r.timezone)
       IN  /\ instant(from_iso(calc.r.when_iso)) > instant(from_iso(calc.prev))
           /\ next_local.wall = prev_local.wall + rec.interval * DAY

\* C10: can_create denies when the active count equals the maximum of the
\* profile's tier and, for a profile that is premium or has credits, allows at
\* the maximum minus one; FREE 20, SILVER 100, GOLD 300, PLATINUM 1000.
C10_CanCreateAtTierLimit ==
    LET tier == IF adm.profile.is_premium THEN adm.profile.premium_tier ELSE "FREE"
        max == CASE tier = "SILVER" -> 100
                 [] tier = "GOLD" -> 300
                 [] tier = "PLATINUM" -> 1000
                 [] OTHER -> 20
    IN  (adm.asked /\ tier \in {"FREE", "SILVER", "GOLD", "PLATINUM"})
        => /\ adm.active_count = max => ~adm.ok
           /\ (/\ adm.active_count = max - 1
               /\ (adm.profile.is_premium \/ adm.profile.credits > 0)) => adm.ok

C10_Witness ==
    /\ adm.asked
    /\ adm.profile.is_premium
    /\ adm.profile.premium_tier = "PLATINUM"
    /\ adm.active_count = 1000
    /\ ~adm.ok

\* a creation request of user_id, by free text or by /repeat
creation_by(user_id) ==
    \/ \E t \in {now, now + DAY} : create_text(user_id, t)
    \/ \E k \in {"daily", "weekly"}, i \in 1..MaxInterval, d \in RepeatDows,
          hm \in RepeatTimes : cmd_repeat(user_id, k, i, d, hm)

\* C11: a creation request of a non-premium profile that is under its
\* active-count limit is denied when the stored balance is 0 (nothing is
\* stored); with a balance of 1 it is allowed, the reminder is stored and the
\* stored balance is 0 afterwards.
C11_CreditGateAtZeroAndOne ==
    [][\A u \in DOMAIN user_data :
          (/\ creation_by(u)
           /\ ~user_data[u].is_premium
           /\ active_count(reminder_data, u) < get_user_tier_info(user_data[u]).max_active)
          => /\ user_data[u].credits = 0
                => /\ last'.outcome = "denied"
                   /\ reminder_data' = reminder_data
                   /\ user_data'[u].credits = 0
             /\ user_data[u].credits = 1
                => /\ last'.outcome = "created"
                   /\ last'.rid \in DOMAIN reminder_data' \ DOMAIN reminder_data
                   /\ reminder_data'[last'.rid].user_id = u
                   /\ user_data'[u].credits = 0]_vars

C11_Witness ==
    /\ last.op = "create_text"
    /\ last.outcome = "created"
    /\ last.rid \in DOMAIN reminder_data
    /\ ~user_data[reminder_data[last.rid].user_id].is_premium
    /\ user_data[reminder_data[last.rid].user_id].credits = 0

\* C12: a snooze request of the owner on a reminder whose snoozes_used has
\* reached (or passed) the owner's snooze limit is refused and leaves the
\* reminder store and the timers unchanged; a request at limit - 1 succeeds and
\* leaves snoozes_used at exactly the limit.
C12_SnoozeRefusedAtLimit ==
    [][\A rid \in DOMAIN reminder_data :
          LET u == reminder_data[rid].user_id
              limit == get_snooze_limit(user_data[u])
          IN  (\E m \in SnoozeMinutes : on_callback_snooze(u, rid, m))
              => /\ reminder_data[rid].snoozes_used >= limit
                    => /\ last'.outcome = "limit"
                       /\ reminder_data' = reminder_data
                       /\ jobs' = jobs
                 /\ reminder_data[rid].snoozes_used = limit - 1
                    => /\ last'.outcome = "snoozed"
                       /\ reminder_data'[rid].snoozes_used = limit]_vars

C12_Witness ==
    /\ last.op = "snooze"
    /\ last.outcome = "limit"
    /\ last.rid \in DOMAIN reminder_data
    /\ reminder_data[last.rid].snoozes_used = 3
    /\ user_data[reminder_data[last.rid].user_id].premium_tier = "SILVER"
    /\ pending(jobs, last.rid) = 4

\* C13: in every reachable state the snoozes_used of every stored reminder is
\* at most the snooze limit of its owner's current tier.
C13_SnoozesWithinTierLimit ==
    \A rid \in DOMAIN reminder_data :
        reminder_data[rid].snoozes_used
            <= get_snooze_limit(get_user(user_data, reminder_data[rid].user_id))

\* C14: the stored credit balance of every user is never negative.
C14_CreditsNeverNegative ==
    \A u \in DOMAIN user_data : user_data[u].credits >= 0

\* C15: a snooze, done or delete callback, or a /delete command, on a reminder
\* id that is not stored or that belongs to another user than the caller leaves
\* the reminder store, the user store and the timers unchanged.
C15_ForeignOrMissingIdIsNoop ==
    [][\A u \in Users, rid \in ReminderIds :
          (/\ \/ rid \notin DOMAIN reminder_data
              \/ reminder_data[rid].user_id # u
           /\ \/ \E m \in SnoozeMinutes : on_callback_snooze(u, rid, m)
              \/ on_callback_done(u, rid)
              \/ on_callback_del(u, rid)
              \/ cmd_delete(u, rid))
          => /\ reminder_data' = reminder_data
             /\ user_data' = user_data
             /\ jobs' = jobs]_vars

\* C16: a creation request that can_create denies changes nothing: no reminder
\* is stored, no credit is deducted, no timer is armed and no id is used up.
C16_DeniedCreationChangesNothing ==
    [][\A u \in Users :
          (/\ creation_by(u)
           /\ ~can_create(get_user(user_data, u), active_count(reminder_data, u)).ok)
          => /\ last'.outcome = "denied"
             /\ reminder_data' = reminder_data
             /\ user_data' = user_data
             /\ jobs' = jobs
             /\ next_id' = next_id]_vars

C16_Witness ==
    /\ last.op = "cmd_repeat"
    /\ last.outcome = "denied"
    /\ \E u \in DOMAIN user_data :
          /\ ~user_data[u].is_premium
          /\ user_data[u].credits = 0
          /\ active_count(reminder_data, u) = 0
    /\ jobs = EmptyBag
    /\ next_id = 1

\* reminder_id was created, no callback for it is in flight, and it is absent
\* from the store or stored with done set
gone(data, rs, nid, reminder_id) ==
    /\ reminder_id < nid
    /\ not_running(rs, reminder_id)
    /\ reminder_id \in DOMAIN data => data[reminder_id].done

\* C17: a delete removes the reminder from the store and a manual done stores
\* it with done set; once that is so and no fire of the id is in flight, it
\* stays so and no step delivers a notification for the id, whatever timers are
\* still pending for it.
C17_NoDeliveryAfterDeleteOrDone ==
    [][/\ (last'.op \in {"del", "cmd_delete"} /\ last'.outcome = "ok")
          => last'.rid \notin DOMAIN reminder_data'
       /\ (last'.op = "done" /\ last'.outcome = "ok")
          => (last'.rid \in DOMAIN reminder_data' /\ reminder_data'[last'.rid].done)
       /\ \A rid \in ReminderIds :
             gone(reminder_data, running, next_id, rid)
             => /\ gone(reminder_data', running', next_id', rid)
                /\ delivered'[rid] = delivered[rid]]_vars

C17_Witness ==
    /\ last.op = "job_start"
    /\ last.outcome = "skipped"
    /\ last.rid < next_id
    /\ last.rid \notin DOMAIN reminder_data
    /\ delivered[last.rid] = 0
    /\ pending(jobs, last.rid) = 1

\* C18: at no time are two fire callbacks for the same reminder id in flight.
C18_NoConcurrentFires ==
    \A rid \in ReminderIds :
        BagCardinality([f \in {x \in BagToSet(running) : x.rid = rid} |-> running[f]]) <= 1

\* C19: when delivery raises, the fire callback returns normally: no exception
\* leaves it.
C19_DeliveryErrorSwallowed ==
    last.op = "job_failed" => last.outcome = "returned"

\* C20: once a one-shot reminder is stored with done set, no step arms a timer
\* for its id.
C20_DoneOneShotNeverRearmed ==
    [][\A rid \in DOMAIN reminder_data :
          (reminder_data[rid].recurring = {} /\ reminder_data[rid].done)
          => pending(jobs', rid) <= pending(jobs, rid)]_vars

\* C21: the scheduler disarms: a delete or a manual completion, the two
\* operations that cancel a reminder, leave no timer pending for its id, and
\* when no timer was pending for the id the cancellation succeeds and leaves
\* the timers as they were.
C21_DisarmCancelsOrIsNoop ==
    [][(last'.op \in {"del", "cmd_delete", "done"} /\ last'.outcome = "ok")
       => /\ pending(jobs', last'.rid) = 0
          /\ pending(jobs, last'.rid) = 0 => jobs' = jobs]_vars

\* C22: for every profile whose tier (premium_tier for a premium profile, FREE
\* otherwise) is FREE, SILVER, GOLD or PLATINUM, get_snooze_limit answers 1, 3,
\* 5 or 10 respectively.
C22_SnoozeLimitTable ==
    LET tier == IF adm.profile.is_premium THEN adm.profile.premium_tier ELSE "FREE"
    IN  adm.asked
        => /\ tier = "FREE" => adm.limit = 1
           /\ tier = "SILVER" => adm.limit = 3
           /\ tier = "GOLD" => adm.limit = 5
           /\ tier = "PLATINUM" => adm.limit = 10

C22_Witness ==
    /\ adm.asked
    /\ adm.profile.is_premium
    /\ adm.profile.premium_tier = "GOLD"
    /\ adm.limit = 5

\* C23: a successful creation, by free text or by /repeat, leaves the stored
\* balance of a premium profile unchanged and lowers the stored balance of a
\* non-premium profile by exactly 1.
C23_CreationChargesByPremium ==
    [][\A u \in Users :
          (last'.outcome = "created" /\ creation_by(u))
          => user_data'[u].credits =
                get_user(user_data, u).credits
                    - (IF get_user(user_data, u).is_premium THEN 0 ELSE 1)]_vars

C23_Witness ==
    /\ last.op = "cmd_repeat"
    /\ last.outcome = "created"
    /\ last.rid \in DOMAIN reminder_data
    /\ user_data[reminder_data[last.rid].user_id].is_premium
    /\ user_data[reminder_data[last.rid].user_id].premium_tier = "SILVER"
    /\ user_data[reminder_data[last.rid].user_id].credits = INITIAL_FREE_CREDITS

C25_CodeUsesBoundedAndInertWhenSpent ==
    [][/\ \A c \in DOMAIN code_data' : code_data'[c].used <= code_data'[c].max_uses
       /\ last'.op \in {"redeem_code", "cmd_redeem"}
          => /\ last'.outcome \in {"expired", "used"}
                => /\ code_data' = code_data
                   /\ \A u \in Users : get_user(user_data', u) = get_user(user_data, u)
             /\ \/ /\ code_data' = code_data
                   /\ \A u \in Users : get_user(user_data', u) = get_user(user_data, u)
                \/ \E c \in DOMAIN code_data :
                      /\ instant(from_iso(code_data[c].expires_at)) >= now
                      /\ code_data[c].used < code_data[c].max_uses
                      /\ code_data' = [code_data EXCEPT ![c].used = @ + 1]]_vars

C25_Witness ==
    /\ last.op = "cmd_redeem"
    /\ last.outcome = "used"
    /\ code_data["MIKU-CR1"].used = 1
    /\ \E u \in DOMAIN user_data : user_data[u].credits = INITIAL_FREE_CREDITS + 1
    /\ \E u \in DOMAIN user_data : user_data[u].credits = INITIAL_FREE_CREDITS

\* the recurrence descriptor of kind daily or weekly with interval >= 1 and, for
\* weekly, a day of week in 0..6
well_formed(rec) ==
    /\ rec.type \in {"daily", "weekly"}
    /\ rec.interval >= 1
    /\ rec.type = "weekly" => (rec.dow # {} /\ rec.dow \subseteq 0..6)

\* C26: every recurrence descriptor a creation stores is well formed: kind
\* daily or weekly, interval >= 1, and for weekly a day of week in 0..6.
C26_PersistedDescriptorWellFormed ==
    [][(last'.outcome = "created" /\ last'.rid \in DOMAIN reminder_data')
       => \A rec \in reminder_data'[last'.rid].recurring : well_formed(rec)]_vars

\* every timezone a stored profile or a stored reminder carries is recognised
timezones_recognised(users, reminders) ==
    /\ \A u \in DOMAIN users : users[u].timezone \in all_timezones
    /\ \A rid \in DOMAIN reminders : reminders[rid].timezone \in all_timezones

\* C27: a timezone update with an unrecognised name is rejected and leaves
\* every profile as it was, and every timezone of a stored profile or of a
\* stored reminder is a recognised one.
C27_TimezoneValidated ==
    [][/\ timezones_recognised(user_data, reminder_data)
       /\ timezones_recognised(user_data', reminder_data')
       /\ (last'.op = "settings_timezone" /\ last'.outcome = "invalid")
             => /\ \A u \in Users : get_user(user_data', u) = get_user(user_data, u)
                /\ reminder_data' = reminder_data]_vars

\* an unrecognised name was just rejected for a user who had set another
\* timezone than the default before, and a reminder is stored
C27_Witness ==
    /\ last.op = "settings_timezone"
    /\ last.outcome = "invalid"
    /\ \E u \in DOMAIN user_data : user_data[u].timezone # DEFAULT_TIMEZONE
    /\ reminder_data # <<>>

C30_RolloverKeepsSnoozeCount ==
    [][\A rid \in DOMAIN reminder_data \cap DOMAIN reminder_data' :
          LET r == reminder_data[rid]
              limit == get_snooze_limit(get_user(user_data, r.user_id))
          IN  r.recurring # {}
              => /\ (last'.op \in {"job_failed", "job_finish"} /\ last'.rid = rid)
                       => reminder_data'[rid].snoozes_used = r.snoozes_used
                 /\ r.snoozes_used >= limit
                       => /\ reminder_data'[rid].snoozes_used >= limit
                          /\ (last'.op = "snooze" /\ last'.rid = rid)
                                => last'.outcome # "snoozed"]_vars

C32_SnoozeFrame ==
    [][(last'.op = "snooze" /\ last'.outcome = "snoozed")
       => LET rid == last'.rid
              r == reminder_data[rid]
          IN  /\ rid \in DOMAIN reminder_data
              /\ DOMAIN reminder_data' = DOMAIN reminder_data
              /\ \A x \in DOMAIN reminder_data \ {rid} : reminder_data'[x] = reminder_data[x]
              /\ \E m \in SnoozeMinutes :
                    /\ instant(from_iso(reminder_data'[rid].when_iso)) = now + m * 60
                    /\ jobs' = jobs (+) SetToBag({[rid |-> rid, when |-> now + m * 60]})
              /\ reminder_data'[rid].snoozes_used = r.snoozes_used + 1
              /\ reminder_data'[rid].done = r.done
              /\ reminder_data'[rid].recurring = r.recurring
              /\ reminder_data'[rid] =
                    [r EXCEPT !.when_iso = reminder_data'[rid].when_iso,
                              !.snoozes_used = reminder_data'[rid].snoozes_used]]_vars

\* a one-shot reminder stored with done set has just been snoozed: it is
\* still done and a timer is pending five minutes from now
C32_Witness ==
    /\ last.op = "snooze"
    /\ last.outcome = "snoozed"
    /\ last.rid \in DOMAIN reminder_data
    /\ reminder_data[last.rid].done
    /\ reminder_data[last.rid].snoozes_used = 1
    /\ armed_at(jobs, last.rid, now + 5 * 60)

\* C33: when the owner neither deletes a reminder nor marks it done, the
\* timer of an accepted snooze delivers: the fire of a timer that is due at
\* the stored due instant of a stored reminder that has been snoozed sends
\* the notification and is not skipped, also for a one-shot reminder that
\* was snoozed from the notification of its own firing.
C33_SnoozedReminderIsDelivered ==
    [][\A j \in BagToSet(jobs) :
          (/\ last'.op = "job_start"
           /\ last'.rid = j.rid
           /\ jobs' = jobs (-) SetToBag({j})
           /\ j.rid \in DOMAIN reminder_data
           /\ reminder_data[j.rid].snoozes_used >= 1
           /\ instant(from_iso(reminder_data[j.rid].when_iso)) = j.when)
          => last'.outcome = "sending"]_vars

\* C34: a reminder that has been deleted from the store never reappears in
\* it: an id that was given out and is absent from the store is absent after
\* every step, also when the delete came while a fire of the reminder was in
\* flight.
C34_DeletionIsDurable ==
    [][\A rid \in ReminderIds :
          (rid < next_id /\ rid \notin DOMAIN reminder_data)
          => rid \notin DOMAIN reminder_data']_vars

\* C35: a stored reminder whose done is true is never stored with done false
\* afterwards, and the write-back at the end of a fire keeps what a snooze or
\* a done of the owner stored while the fire was in flight: it leaves done,
\* snoozes_used and a snoozed due instant as the store held them.
C35_DoneMonotoneAndUpdatesKept ==
    [][\A rid \in DOMAIN reminder_data \cap DOMAIN reminder_data' :
          /\ reminder_data[rid].done => reminder_data'[rid].done
          /\ (last'.op \in {"job_failed", "job_finish"} /\ last'.rid = rid)
                => \A f \in BagToSet(running) :
                      (ended_in_step(f) /\ f.rid = rid /\ reminder_data[rid] # f.r)
                      => /\ reminder_data'[rid].snoozes_used = reminder_data[rid].snoozes_used
                         /\ reminder_data'[rid].when_iso = reminder_data[rid].when_iso]_vars

\* C36: no notification is delivered before the due instant that the store
\* holds for its reminder when it is delivered.
C36_NeverDeliveredEarly ==
    [][(last'.op = "job_sent" /\ last'.rid \in DOMAIN reminder_data)
       => now >= instant(from_iso(reminder_data[last'.rid].when_iso))]_vars

\* C37: the day-by-day weekday searches end within seven day steps: no
\* creation request leaves its handler in the first-occurrence loop, and for
\* every stored weekly reminder the loop of the next-occurrence computation
\* takes at most seven steps from its stored due instant.
C37_WeekdaySearchTerminates ==
    /\ last.outcome # "hung"
    /\ \A rid \in DOMAIN reminder_data :
          \A rec \in reminder_data[rid].recurring :
             rec.type = "weekly"
             => LET r == reminder_data[rid]
                    base == astimezone(from_iso(r.when_iso), r.timezone)
                IN  move_to_weekday_steps(plus_timedelta(base, rec.interval * WEEK),
                                          dow_or(rec, weekday(base)), 7) <= 7

\* C38: in every state the number of stored reminders of a user that are not
\* done is at most the maximum active count of the tier the user has then.
C38_ActiveWithinTierMaximum ==
    \A u \in DOMAIN user_data :
        active_count(reminder_data, u) <= get_user_tier_info(user_data[u]).max_active

\* the last instant the clock is observed at
LastInstant == StartInstant + MaxDays * DAY + GRACE_SECONDS

====
